---------------------------- MODULE Spec2Model ----------------------------
(***************************************************************************)
(* Model of the analytics engine of backend/app/advanced_analytics.py      *)
(* together with the transaction store it reads (backend/app/db.py) and    *)
(* the HTTP handlers that write to it (backend/app/main.py).               *)
(*                                                                         *)
(* Numbers.  Amounts are integers (rupees).  Every quantity the code       *)
(* obtains by +, -, *, / from amounts is kept as an exact rational         *)
(* [num, den] in lowest terms.  The two quantities that are not rational   *)
(* (math.sqrt in the volatility, math.log in the diversification) are      *)
(* carried in fixed point with FX units per 1.0, rounded down; the         *)
(* volatility also keeps its exact square and sign so that comparisons     *)
(* with rational thresholds are exact.  The guards 1e-9 and 1e-12 the code *)
(* adds to denominators and to the argument of log are below that          *)
(* resolution and are taken as 0.                                          *)
(***************************************************************************)
EXTENDS Integers, Sequences, FiniteSets, TLC

(***************************************************************************)
(* Bounds of the model.                                                    *)
(***************************************************************************)
MaxTx == 4

(***************************************************************************)
(* Integer helpers.                                                        *)
(***************************************************************************)
Abs(x) == IF x < 0 THEN -x ELSE x

RECURSIVE Euclid(_, _)
Euclid(a, b) == IF b = 0 THEN a ELSE Euclid(b, a % b)

GCD(a, b) == Euclid(Abs(a), Abs(b))

\* floor(a / b) for b > 0 and any integer a
FloorDiv(a, b) == a \div b

\* int(x) of Python for a rational a / b, b > 0: truncation toward zero
TruncDiv(a, b) == IF a >= 0 THEN a \div b ELSE -((-a) \div b)

RECURSIVE SeqSum(_)
SeqSum(s) == IF s = <<>> THEN 0 ELSE Head(s) + SeqSum(Tail(s))

\* floor(sqrt(n)) for n >= 0, by bisection on lo^2 <= n < hi^2
RECURSIVE IsqrtIter(_, _, _)
IsqrtIter(n, lo, hi) ==
    IF hi - lo <= 1 THEN lo
    ELSE LET mid == (lo + hi) \div 2
         IN  IF mid * mid <= n THEN IsqrtIter(n, mid, hi)
                               ELSE IsqrtIter(n, lo, mid)

Isqrt(n) == IF n <= 0 THEN 0 ELSE IsqrtIter(n, 0, 46341)

RECURSIVE Pow10(_)
Pow10(k) == IF k = 0 THEN 1 ELSE 10 * Pow10(k - 1)

\* floor(a * 10^k / b) for 0 <= a, 0 < b, computed digit by digit so that no
\* intermediate value leaves the 32-bit range
RECURSIVE FracDigits(_, _, _)
FracDigits(r, b, k) ==
    IF k = 0 THEN 0
    ELSE LET d == (r * 10) \div b
             rest == (r * 10) % b
         IN  d * Pow10(k - 1) + FracDigits(rest, b, k - 1)

ScaledDiv(a, b, k) == (a \div b) * Pow10(k) + FracDigits(a % b, b, k)

(***************************************************************************)
(* Exact rationals: [num, den] with den > 0 and gcd(num, den) = 1.         *)
(***************************************************************************)
Rat(n, d) ==
    LET g == GCD(n, d)
        s == IF d < 0 THEN -1 ELSE 1
    IN  IF n = 0 THEN [num |-> 0, den |-> 1]
        ELSE [num |-> s * (n \div g), den |-> s * (d \div g)]

RInt(n) == [num |-> n, den |-> 1]
RAdd(a, b) == Rat(a.num * b.den + b.num * a.den, a.den * b.den)
RSub(a, b) == Rat(a.num * b.den - b.num * a.den, a.den * b.den)
RMul(a, b) == Rat(a.num * b.num, a.den * b.den)
RDiv(a, b) == Rat(a.num * b.den, a.den * b.num)
RLt(a, b) == a.num * b.den < b.num * a.den
RLe(a, b) == a.num * b.den <= b.num * a.den
RGt(a, b) == RLt(b, a)
RGe(a, b) == RLe(b, a)
RMax(a, b) == IF RLt(a, b) THEN b ELSE a
RMin(a, b) == IF RLt(b, a) THEN b ELSE a
RTrunc(a) == TruncDiv(a.num, a.den)

(***************************************************************************)
(* Transaction documents.  A document has the fields the engine reads:     *)
(* type, category, amount, date.  A missing or None field is the empty     *)
(* string (type, category), an amount that is not a number, or a date of   *)
(* kind "none".  A date is a datetime value, or a string: "iso" parses     *)
(* with datetime.fromisoformat, "ymd" only with strptime("%Y-%m-%d"),      *)
(* "bad" with neither, "isotz" is an ISO string with a UTC offset, which   *)
(* datetime.fromisoformat turns into an offset-aware datetime.  Stored     *)
(* datetimes are midnights (datetime.combine(date, datetime.min.time())).  *)
(***************************************************************************)
DT(y, m, d) == [k |-> "datetime", y |-> y, m |-> m, d |-> d]
AwareDT(y, m, d) == [k |-> "datetime_tz", y |-> y, m |-> m, d |-> d]
StrDate(fmt, y, m, d) == [k |-> fmt, y |-> y, m |-> m, d |-> d]
NoDate == [k |-> "none", y |-> 0, m |-> 0, d |-> 0]

Num(v) == [t |-> "num", v |-> v]
NotNum == [t |-> "text", v |-> 0]

Tx(type, category, amount, date) ==
    [type |-> type, category |-> category, amount |-> amount, date |-> date]

\* The documents a user's collection is filled from.
PoolSeq ==
    << Tx("income",   "Salary", Num(6000),  DT(2024, 1, 1)),
       Tx("income",   "Salary", Num(6000),  DT(2024, 2, 1)),
       Tx("income",   "Salary", Num(6000),  DT(2024, 3, 1)),
       Tx("income",   "Salary", Num(60000), DT(2024, 1, 1)),
       Tx("expense",  "Food",   Num(500),   DT(2024, 1, 5)),
       Tx("expense",  "Food",   Num(500),   DT(2024, 2, 5)),
       Tx("expense",  "Rent",   Num(500),   DT(2024, 1, 5)),
       Tx("expense",  "Food",   Num(6000),  DT(2024, 1, 20)),
       Tx("expense",  "Rent",   Num(6000),  StrDate("iso", 2024, 2, 10)),
       Tx("expense",  "Food",   Num(60000), DT(2024, 1, 20)),
       Tx("expense",  "Food",   Num(60000), DT(2024, 3, 20)),
       Tx("expense",  "Food",   Num(-500),  DT(2024, 2, 5)),
       Tx("expense",  "Food",   Num(500),   NoDate),
       Tx("expense",  "Food",   Num(60000), StrDate("bad", 0, 0, 0)),
       Tx("income",   "Salary", Num(6000),  NoDate),
       Tx("transfer", "",       Num(500),   DT(2024, 1, 5)),
       Tx("Expense",  "Rent",   NotNum,     DT(2024, 3, 20)),
       Tx("expense",  "Food",   Num(500),   DT(2024, 3, 4)),
       Tx("expense",  "Rent",   Num(6000),  DT(2024, 3, 11)),
       Tx("expense",  "Food",   Num(500),   StrDate("isotz", 2024, 3, 15)),
       Tx("",         "Misc",   Num(60000), DT(2024, 3, 15)) >>

PoolIdx == 1 .. Len(PoolSeq)

VARIABLES
    store,      \* db.transactions of the user: document index -> copies held
    transactions, \* the list the last analytics request read from the store,
                  \* as the request left it
    aggregates, \* what compute_basic_aggregates returned in that request
    metrics,    \* the averages and the volatility the request computed from them
    report,     \* what the request returned; status "none" when none is held
    clock,      \* the value of utcnow() the request read (line 199); 0 when
                \* no report is held
    now         \* datetime.utcnow(), in days

vars == <<store, transactions, aggregates, metrics, report, clock, now>>

StoreSize(st) == SeqSum([i \in PoolIdx |-> st[i]])

(***************************************************************************)
(* db.transactions.find({"user_id": user_id}).sort("date", -1): the        *)
(* documents of the collection, latest date first.  In BSON order a Date   *)
(* is above a String and a String above Null, so in descending order the   *)
(* datetime values come first.                                             *)
(***************************************************************************)
RECURSIVE Copies(_, _)
Copies(x, n) == IF n = 0 THEN <<>> ELSE <<x>> \o Copies(x, n - 1)

RECURSIVE Expand(_, _)
Expand(st, i) ==
    IF i > Len(PoolSeq) THEN <<>>
    ELSE Copies(PoolSeq[i], st[i]) \o Expand(st, i + 1)

DateSortKey(d) ==
    LET ymd == d.y * 10000 + d.m * 100 + d.d
    IN  CASE d.k = "datetime" -> 200000000 + ymd
          [] d.k = "none"     -> 0
          [] OTHER            -> 100000000 + ymd

RECURSIVE InsertDesc(_, _)
InsertDesc(tx, sorted) ==
    IF sorted = <<>> THEN <<tx>>
    ELSE IF DateSortKey(tx.date) > DateSortKey(Head(sorted).date)
         THEN <<tx>> \o sorted
         ELSE <<Head(sorted)>> \o InsertDesc(tx, Tail(sorted))

RECURSIVE SortByDateDesc(_)
SortByDateDesc(txs) ==
    IF txs = <<>> THEN <<>>
    ELSE InsertDesc(Head(txs), SortByDateDesc(Tail(txs)))

FindTransactions(st) == SortByDateDesc(Expand(st, 1))

(***************************************************************************)
(* compute_basic_aggregates                                                *)
(***************************************************************************)
\* _safe_float(v): float(v), or 0.0 when v is not a number
SafeFloat(a) == IF a.t = "num" THEN a.v ELSE 0

\* (tx.get("type") or "").lower()
Lower(type) ==
    CASE type = "Expense" -> "expense"
      [] type = "Income"  -> "income"
      [] OTHER            -> type

\* tx.get("category") or "Other"
CategoryOf(tx) == IF tx.category = "" THEN "Other" ELSE tx.category

\* lines 40-48: a date string is replaced by the datetime it parses to, by
\* None when neither parser accepts it
NormalizeDate(d) ==
    CASE d.k \in {"iso", "ymd"} -> DT(d.y, d.m, d.d)
      [] d.k = "isotz"          -> AwareDT(d.y, d.m, d.d)
      [] d.k = "bad"            -> NoDate
      [] OTHER                  -> d

Normalize(txs) ==
    [i \in 1 .. Len(txs) |-> [txs[i] EXCEPT !.date = NormalizeDate(@)]]

IsDatetime(d) == d.k \in {"datetime", "datetime_tz"}

\* lines 51-55
RECURSIVE ExpenseAmounts(_)
ExpenseAmounts(txs) ==
    IF txs = <<>> THEN <<>>
    ELSE (IF Lower(Head(txs).type) = "expense"
          THEN <<SafeFloat(Head(txs).amount)>> ELSE <<>>)
         \o ExpenseAmounts(Tail(txs))

RECURSIVE InsertAsc(_, _)
InsertAsc(x, sorted) ==
    IF sorted = <<>> THEN <<x>>
    ELSE IF x <= Head(sorted) THEN <<x>> \o sorted
         ELSE <<Head(sorted)>> \o InsertAsc(x, Tail(sorted))

RECURSIVE Sorted(_)
Sorted(xs) == IF xs = <<>> THEN <<>> ELSE InsertAsc(Head(xs), Sorted(Tail(xs)))

Max2(a, b) == IF a >= b THEN a ELSE b

\* a variant that takes the lower of the two middle amounts
MedianExpense_LowerMiddle(amts) == Sorted(amts)[(Len(amts) + 1) \div 2]

\* line 59: sorted(expense_amounts)[len(expense_amounts) // 2]
MedianExpense(amts) == Sorted(amts)[(Len(amts) \div 2) + 1]

\* line 60
OutlierThreshold(amts) == Max2(MedianExpense(amts) * 10, 50000)

\* a variant that also takes an amount equal to the threshold
OutlierAmounts_AtThreshold(amts) ==
    IF Len(amts) > 2
    THEN {amts[i] : i \in {j \in 1 .. Len(amts) : amts[j] >= OutlierThreshold(amts)}}
    ELSE {}

\* lines 57-61
OutlierAmounts(amts) ==
    IF Len(amts) > 2
    THEN {amts[i] : i \in {j \in 1 .. Len(amts) : amts[j] > OutlierThreshold(amts)}}
    ELSE {}

\* a variant that looks at the amount only, whatever the type
IsOutlier_AnyType(tx, outliers) == SafeFloat(tx.amount) \in outliers

\* line 73
IsOutlier(tx, outliers) ==
    Lower(tx.type) = "expense" /\ SafeFloat(tx.amount) \in outliers

EmptyBucket == [income |-> 0, expense |-> 0, outlier_expense |-> 0]

EmptyAggregates ==
    [monthly |-> <<>>, categories |-> <<>>,
     total_income |-> 0, total_expense |-> 0, total_outlier_expense |-> 0]

\* defaultdict access: the entry, created with its default when absent
BucketOf(monthly, key) ==
    IF key \in DOMAIN monthly THEN monthly[key] ELSE EmptyBucket

CatTotalOf(categories, cat) ==
    IF cat \in DOMAIN categories THEN categories[cat] ELSE 0

Put(f, key, val) == (key :> val) @@ f

\* a variant that leaves a transaction without a datetime out of the categories
AddCategory_DatedOnly(acc, tx, outliers) ==
    IF Lower(tx.type) = "expense" /\ ~IsOutlier(tx, outliers) /\ IsDatetime(tx.date)
    THEN [acc EXCEPT !.categories =
            Put(@, CategoryOf(tx), CatTotalOf(@, CategoryOf(tx)) + SafeFloat(tx.amount))]
    ELSE acc

\* a variant that keeps the outliers in the category totals
AddCategory_WithOutliers(acc, tx, outliers) ==
    IF Lower(tx.type) = "expense"
    THEN [acc EXCEPT !.categories =
            Put(@, CategoryOf(tx), CatTotalOf(@, CategoryOf(tx)) + SafeFloat(tx.amount))]
    ELSE acc

\* lines 78-79
AddCategory(acc, tx, outliers) ==
    IF Lower(tx.type) = "expense" /\ ~IsOutlier(tx, outliers)
    THEN [acc EXCEPT !.categories =
            Put(@, CategoryOf(tx), CatTotalOf(@, CategoryOf(tx)) + SafeFloat(tx.amount))]
    ELSE acc

\* a variant whose fallback branch has no outlier case: an undated outlier is
\* counted as a regular expense
AddTotals_UndatedOutlierAsRegular(acc, tx, outliers) ==
    LET ttype  == Lower(tx.type)
        amount == SafeFloat(tx.amount)
        key    == <<tx.date.y, tx.date.m>>
        b      == BucketOf(acc.monthly, key)
    IN  IF IsDatetime(tx.date)
        THEN IF ttype = "income"
             THEN [acc EXCEPT !.monthly = Put(@, key, [b EXCEPT !.income = @ + amount]),
                              !.total_income = @ + amount]
             ELSE IF IsOutlier(tx, outliers)
             THEN [acc EXCEPT !.monthly = Put(@, key, [b EXCEPT !.outlier_expense = @ + amount]),
                              !.total_outlier_expense = @ + amount]
             ELSE [acc EXCEPT !.monthly = Put(@, key, [b EXCEPT !.expense = @ + amount]),
                              !.total_expense = @ + amount]
        ELSE IF ttype = "income"
             THEN [acc EXCEPT !.total_income = @ + amount]
             ELSE [acc EXCEPT !.total_expense = @ + amount]

\* lines 81-102
AddTotals(acc, tx, outliers) ==
    LET ttype  == Lower(tx.type)
        amount == SafeFloat(tx.amount)
        key    == <<tx.date.y, tx.date.m>>
        b      == BucketOf(acc.monthly, key)
    IN  IF IsDatetime(tx.date)
        THEN IF ttype = "income"
             THEN [acc EXCEPT !.monthly = Put(@, key, [b EXCEPT !.income = @ + amount]),
                              !.total_income = @ + amount]
             ELSE IF IsOutlier(tx, outliers)
             THEN [acc EXCEPT !.monthly = Put(@, key, [b EXCEPT !.outlier_expense = @ + amount]),
                              !.total_outlier_expense = @ + amount]
             ELSE [acc EXCEPT !.monthly = Put(@, key, [b EXCEPT !.expense = @ + amount]),
                              !.total_expense = @ + amount]
        ELSE IF ttype = "income"
             THEN [acc EXCEPT !.total_income = @ + amount]
             ELSE IF IsOutlier(tx, outliers)
             THEN [acc EXCEPT !.total_outlier_expense = @ + amount]
             ELSE [acc EXCEPT !.total_expense = @ + amount]

\* lines 70-102: the loop over the transactions
RECURSIVE Accumulate(_, _, _)
Accumulate(txs, outliers, acc) ==
    IF txs = <<>> THEN acc
    ELSE Accumulate(Tail(txs), outliers,
                    AddTotals(AddCategory(acc, Head(txs), outliers), Head(txs), outliers))

\* a variant that orders the later month first
KeyLess_Descending(a, b) == b[1] < a[1] \/ (b[1] = a[1] /\ b[2] < a[2])

KeyLess(a, b) == a[1] < b[1] \/ (a[1] = b[1] /\ a[2] < b[2])

\* line 105: sorted(list(monthly.keys()))
RECURSIVE SortedKeys(_)
SortedKeys(keys) ==
    IF keys = {} THEN <<>>
    ELSE LET k == CHOOSE x \in keys : \A y \in keys : x = y \/ KeyLess(x, y)
         IN  <<k>> \o SortedKeys(keys \ {k})

\* lines 104-114
MonthlySeries(monthly) ==
    LET keys == SortedKeys(DOMAIN monthly)
    IN  [i \in 1 .. Len(keys) |->
            [year |-> keys[i][1], month |-> keys[i][2],
             income |-> monthly[keys[i]].income,
             expense |-> monthly[keys[i]].expense,
             outlier_expense |-> monthly[keys[i]].outlier_expense]]

compute_basic_aggregates(input) ==
    LET txs      == Normalize(input)
        outliers == OutlierAmounts(ExpenseAmounts(txs))
        acc      == Accumulate(txs, outliers, EmptyAggregates)
    IN  [monthly_series        |-> MonthlySeries(acc.monthly),
         total_income          |-> acc.total_income,
         total_expense         |-> acc.total_expense,
         total_outlier_expense |-> acc.total_outlier_expense,
         categories            |-> acc.categories]

(***************************************************************************)
(* Fixed point for the two irrational quantities: FX units per 1.0.        *)
(* LnP(n) is ln(n) in units of 1e-5, from n = 2^e * m, 1 <= m < 2 and      *)
(* ln(m) = 2 atanh((m - 1) / (m + 1)).                                     *)
(***************************************************************************)
FX == 10 * 10 * 10

RECURSIVE Log2Floor(_)
Log2Floor(n) == IF n < 2 THEN 0 ELSE 1 + Log2Floor(n \div 2)

RECURSIVE Pow2(_)
Pow2(e) == IF e = 0 THEN 1 ELSE 2 * Pow2(e - 1)

LnP(n) ==
    LET e  == Log2Floor(n)
        z  == ScaledDiv(n - Pow2(e), n + Pow2(e), 5)
        z2 == (z * z) \div 100000
        z3 == (z * z2) \div 100000
        z5 == (z3 * z2) \div 100000
        z7 == (z5 * z2) \div 100000
        z9 == (z7 * z2) \div 100000
    IN  e * 69315 + 2 * (z + z3 \div 3 + z5 \div 5 + z7 \div 7 + z9 \div 9)

(***************************************************************************)
(* compute_spending_volatility: stddev / mean of the monthly expenses.     *)
(* With S the sum and n the number of months, (stddev / mean)^2 =          *)
(* (n * sum(x^2) - S^2) / S^2 and the sign is that of the mean.  The       *)
(* value does not change when every x is divided by a common factor,       *)
(* which keeps the squares small.                                          *)
(***************************************************************************)
RECURSIVE SeqGCD(_)
SeqGCD(xs) == IF xs = <<>> THEN 0 ELSE GCD(Head(xs), SeqGCD(Tail(xs)))

ZeroVol == [sgn |-> 0, sq |-> RInt(0)]

compute_spending_volatility(monthly_series) ==
    LET expenses == [i \in 1 .. Len(monthly_series) |-> monthly_series[i].expense]
        n  == Len(expenses)
        g  == SeqGCD(expenses)
        xs == [i \in 1 .. n |-> expenses[i] \div g]
        S  == SeqSum(xs)
        Q  == SeqSum([i \in 1 .. n |-> xs[i] * xs[i]])
        A  == n * Q - S * S
    IN  IF n = 0 THEN ZeroVol
        ELSE IF SeqSum(expenses) = 0 THEN ZeroVol
        ELSE IF A = 0 THEN ZeroVol
        ELSE [sgn |-> IF S > 0 THEN 1 ELSE -1, sq |-> Rat(A, S * S)]

\* the volatility in fixed point
VolFx(vol) == vol.sgn * Isqrt(ScaledDiv(vol.sq.num, vol.sq.den, 6))

\* volatility > c and volatility < c for a rational c >= 0
VolGt(vol, c) == vol.sgn > 0 /\ RGt(vol.sq, RMul(c, c))
VolLt(vol, c) == vol.sgn < 0 \/ RLt(vol.sq, RMul(c, c))

(***************************************************************************)
(* compute_diversification_score: entropy of the category shares over the  *)
(* logarithm of their number.  math.log raises ValueError on a share that  *)
(* is not positive, which a negative total produces; the result is then    *)
(* [err |-> TRUE].                                                         *)
(***************************************************************************)
RECURSIVE SetSum(_, _)
SetSum(f, S) ==
    IF S = {} THEN 0
    ELSE LET x == CHOOSE y \in S : TRUE IN f[x] + SetSum(f, S \ {x})

RECURSIVE SetGCD(_, _)
SetGCD(f, S) ==
    IF S = {} THEN 0
    ELSE LET x == CHOOSE y \in S : TRUE IN GCD(f[x], SetGCD(f, S \ {x}))

DivScore(fx) == [err |-> FALSE, fx |-> fx]
DivError == [err |-> TRUE, fx |-> 0]

compute_diversification_score(categories) ==
    LET sum    == SetSum(categories, DOMAIN categories)
        total  == IF sum = 0 THEN 1 ELSE sum
        pos    == {c \in DOMAIN categories : categories[c] > 0}
        g      == GCD(SetGCD(categories, pos), total)
        N      == total \div g
        w      == [c \in pos |-> categories[c] \div g]
        \* -sum(s * log(s)) with s = w / N, in units of 1e-5
        terms  == [c \in pos |-> w[c] * (LnP(N) - LnP(w[c]))]
        entropy == SetSum(terms, pos) \div N
        max_entropy == LnP(Cardinality(pos))
    IN  IF pos = {} THEN DivScore(0)
        ELSE IF total < 0 THEN DivError
        ELSE IF max_entropy <= 0 THEN DivScore(FX)
        ELSE DivScore(ScaledDiv(entropy, max_entropy, 3))

(***************************************************************************)
(* simple_linear_forecast: least squares of the monthly expenses against   *)
(* the month index 0 .. n-1, extended by `periods` months, each value      *)
(* max(0.0, intercept + slope * p).                                        *)
(***************************************************************************)
RECURSIVE RSum(_)
RSum(rs) == IF rs = <<>> THEN RInt(0) ELSE RAdd(Head(rs), RSum(Tail(rs)))

\* a variant without the clamp at zero
ClampPrediction_None(v) == v

\* line 163
ClampPrediction(v) == RMax(RInt(0), v)

\* a variant that starts the projection one period late
simple_linear_forecast_Late(monthly_series, periods) ==
    LET ys     == [i \in 1 .. Len(monthly_series) |-> monthly_series[i].expense]
        n      == Len(ys)
        xs     == [i \in 1 .. n |-> i - 1]
        mean_x == Rat(SeqSum(xs), n)
        mean_y == Rat(SeqSum(ys), n)
        dx     == [i \in 1 .. n |-> RSub(RInt(xs[i]), mean_x)]
        dy     == [i \in 1 .. n |-> RSub(RInt(ys[i]), mean_y)]
        denom  == RSum([i \in 1 .. n |-> RMul(dx[i], dx[i])])
        slope  == IF denom.num = 0 THEN RInt(0)
                  ELSE RDiv(RSum([i \in 1 .. n |-> RMul(dx[i], dy[i])]), denom)
        intercept == RSub(mean_y, RMul(slope, mean_x))
    IN  IF n = 0 THEN [p \in 1 .. periods |-> RInt(0)]
        ELSE [p \in 1 .. periods |->
                ClampPrediction(RAdd(intercept, RMul(slope, RInt(n + p))))]

simple_linear_forecast(monthly_series, periods) ==
    LET ys     == [i \in 1 .. Len(monthly_series) |-> monthly_series[i].expense]
        n      == Len(ys)
        xs     == [i \in 1 .. n |-> i - 1]
        mean_x == Rat(SeqSum(xs), n)
        mean_y == Rat(SeqSum(ys), n)
        dx     == [i \in 1 .. n |-> RSub(RInt(xs[i]), mean_x)]
        dy     == [i \in 1 .. n |-> RSub(RInt(ys[i]), mean_y)]
        denom  == RSum([i \in 1 .. n |-> RMul(dx[i], dx[i])])
        slope  == IF denom.num = 0 THEN RInt(0)
                  ELSE RDiv(RSum([i \in 1 .. n |-> RMul(dx[i], dy[i])]), denom)
        intercept == RSub(mean_y, RMul(slope, mean_x))
    IN  IF n = 0 THEN [p \in 1 .. periods |-> RInt(0)]
        ELSE [p \in 1 .. periods |->
                ClampPrediction(RAdd(intercept, RMul(slope, RInt(n + p - 1))))]

(***************************************************************************)
(* compute_weekly_insights.  The clock (datetime.utcnow()) is read in      *)
(* whole days, counted from 1 January 2024; a timedelta is a number of     *)
(* days.  Comparing an offset-aware datetime with the naive clock raises   *)
(* TypeError.                                                              *)
(***************************************************************************)
DaysBefore == <<0, 31, 60, 91, 121, 152, 182, 213, 244, 274, 305, 335>>
Ordinal(d) == (d.y - 2024) * 366 + DaysBefore[d.m] + d.d

InsightNone == "No expenses in the last 7 days."
InsightTop == "Top spending category in last 7 days"
InsightSpike == "Spending increased significantly vs previous week."
WeeklyRec == "Review top categories to reduce discretionary spending."
Insight(text, category, amount) == [text |-> text, category |-> category, amount |-> amount]

\* _safe_float(tx.get("amount") or 0) summed over the non-income entries
RECURSIVE Spent(_)
Spent(txs) ==
    IF txs = <<>> THEN 0
    ELSE (IF Lower(Head(txs).type) # "income" THEN SafeFloat(Head(txs).amount) ELSE 0)
         + Spent(Tail(txs))

\* line 201
Recent(txs, week_start) ==
    SelectSeq(txs, LAMBDA tx : IsDatetime(tx.date) /\ Ordinal(tx.date) >= week_start)

\* line 216
Previous(txs, prev_start, week_start) ==
    SelectSeq(txs, LAMBDA tx : IsDatetime(tx.date) /\ prev_start <= Ordinal(tx.date)
                               /\ Ordinal(tx.date) < week_start)

\* the keys of cat_counter in insertion order
RECURSIVE CounterKeys(_, _)
CounterKeys(txs, seen) ==
    IF txs = <<>> THEN <<>>
    ELSE LET c == CategoryOf(Head(txs))
         IN  IF Lower(Head(txs).type) = "income" \/ c \in seen
             THEN CounterKeys(Tail(txs), seen)
             ELSE <<c>> \o CounterKeys(Tail(txs), seen \cup {c})

CounterValue(txs, c) == Spent(SelectSeq(txs, LAMBDA tx : CategoryOf(tx) = c))

\* cat_counter.most_common(1)[0]: the largest value, the earliest key on a tie
MostCommon(txs) ==
    LET keys == CounterKeys(txs, {})
        best == CHOOSE i \in 1 .. Len(keys) :
                    \A j \in 1 .. Len(keys) :
                        \/ CounterValue(txs, keys[j]) < CounterValue(txs, keys[i])
                        \/ (CounterValue(txs, keys[j]) = CounterValue(txs, keys[i]) /\ i <= j)
    IN  <<keys[best], CounterValue(txs, keys[best])>>

\* lines 219-222: prev_avg > 0 and curr_avg > prev_avg * 1.3, both over 7
Spike(total_spent, prev_spent) == prev_spent > 0 /\ 10 * total_spent > 13 * prev_spent

compute_weekly_insights(txs, utcnow) ==
    LET week_start  == utcnow - 7
        recent      == Recent(txs, week_start)
        total_spent == Spent(recent)
        prev_start  == week_start - 7
        prev_spent  == Spent(Previous(txs, prev_start, week_start))
        top         == MostCommon(recent)
        insights    ==
            IF total_spent = 0 THEN <<Insight(InsightNone, "", 0)>>
            ELSE <<Insight(InsightTop, top[1], top[2])>>
                 \o (IF Spike(total_spent, prev_spent)
                     THEN <<Insight(InsightSpike, "", 0)>> ELSE <<>>)
    IN  IF \E i \in 1 .. Len(txs) : txs[i].date.k = "datetime_tz"
        THEN [err |-> TRUE, total_spending |-> 0, insights |-> <<>>,
              recommendations |-> <<>>]
        ELSE [err |-> FALSE, total_spending |-> total_spent, insights |-> insights,
              recommendations |-> IF total_spent > 0 THEN <<WeeklyRec>> ELSE <<>>]

(***************************************************************************)
(* estimate_credit_score_from_behaviour                                    *)
(***************************************************************************)
\* a variant without the floor of 300
ClampCredit_NoFloor(base) == RMin(RInt(850), base)

ClampCredit(base) == RMax(RInt(300), RMin(RInt(850), base))

estimate_credit_score_from_behaviour(payment_consistency, dti) ==
    LET base == RSub(RAdd(RInt(650),
                          RMul(RSub(payment_consistency, Rat(7, 10)), RInt(200))),
                     RMul(RSub(dti, Rat(3, 10)), RInt(200)))
    IN  RTrunc(ClampCredit(base))

(***************************************************************************)
(* build_advanced_analytics                                                *)
(***************************************************************************)
RecDTI == "Consider lowering recurring liabilities - your DTI is relatively high."
RecEmergency == "Build an emergency fund covering at least 1-3 months of expenses."
RecVolatile == "Your spending is volatile - consider stabilizing discretionary spending."
RecConcentrated == "Your spending is concentrated in a few categories - review diversification."
RecSavings == "Increase savings or reduce expenses to achieve positive monthly savings."

\* line 257
\* a variant that never divides by the number of months
MonthsCount_One(monthly_series) == 1

MonthsCount(monthly_series) == Max2(1, Len(monthly_series))

\* a variant without the clamp at 0
AvgMonthlySavings_Unclamped(avg_monthly_income, avg_monthly_expense) ==
    RSub(avg_monthly_income, avg_monthly_expense)

\* line 260
AvgMonthlySavings(avg_monthly_income, avg_monthly_expense) ==
    RMax(RInt(0), RSub(avg_monthly_income, avg_monthly_expense))

\* lines 275-276
DTI(avg_monthly_income, avg_monthly_expense) ==
    LET raw == IF avg_monthly_income.num > 0
               THEN RDiv(avg_monthly_expense, avg_monthly_income)
               ELSE RInt(1)
    IN  RMin(RMax(raw, RInt(0)), RInt(10))

\* lines 279-280
PaymentConsistency(monthly_series) ==
    Rat(Cardinality({i \in 1 .. Len(monthly_series) : monthly_series[i].income > 0}),
        MonthsCount(monthly_series))

\* a variant that assumes three months of cover when nothing is saved
EmergencyFundMonths_Assumed(avg_monthly_savings, avg_monthly_expense) ==
    IF avg_monthly_expense.num > 0 /\ avg_monthly_savings.num > 0
    THEN RDiv(RMul(avg_monthly_savings, RInt(3)), avg_monthly_expense)
    ELSE RInt(3)

\* lines 283-290
EmergencyFundMonths(avg_monthly_savings, avg_monthly_expense) ==
    IF avg_monthly_expense.num > 0 /\ avg_monthly_savings.num > 0
    THEN RDiv(RMul(avg_monthly_savings, RInt(3)), avg_monthly_expense)
    ELSE IF avg_monthly_savings.num > 0 THEN RInt(3)
    ELSE RInt(0)

\* a variant without the clamp to [0, 1]
ClampScore_None(x) == x

\* line 312
ClampScore(x) == Max2(0, IF x < FX THEN x ELSE FX)

\* lines 303-312, in fixed point; the sum is formed in units of 1e-5
OverallRiskScore(dti, payment_consistency, volatility, diversification_score) ==
    LET norm_dti    == RMin(RInt(1), dti)
        inv_payment == RSub(RInt(1), RMin(RInt(1), payment_consistency))
        inv_diversification == FX - diversification_score
        exact == RAdd(RMul(Rat(40, 100), norm_dti), RMul(Rat(25, 100), inv_payment))
        sum5  == ScaledDiv(exact.num, exact.den, 5)
                 + 20 * VolFx(volatility) + 15 * inv_diversification
    IN  ClampScore(sum5 \div 100)

\* a variant with the thresholds 0.25 and 0.60
RiskLevel_Quarter(overall_risk_score) ==
    IF overall_risk_score * 100 < 25 * FX THEN "low"
    ELSE IF overall_risk_score * 100 < 60 * FX THEN "medium"
    ELSE "high"

\* lines 315-320
RiskLevel(overall_risk_score) ==
    IF overall_risk_score * 100 < 33 * FX THEN "low"
    ELSE IF overall_risk_score * 100 < 66 * FX THEN "medium"
    ELSE "high"

\* line 352
FinancialDiscipline(avg_monthly_savings, avg_monthly_income) ==
    IF avg_monthly_income.num > 0
    THEN RMin(RInt(1), RDiv(avg_monthly_savings, avg_monthly_income))
    ELSE RInt(0)

\* line 353
SpendingConsistency(volatility) == FX - VolFx(volatility)

\* a variant that tests the volatility before the emergency fund
Recommendations_Swapped(dti, emergency_fund_months, volatility, diversification_score, avg_monthly_savings) ==
    (IF RGt(dti, Rat(5, 10)) THEN <<RecDTI>> ELSE <<>>)
    \o (IF VolGt(volatility, Rat(4, 10)) THEN <<RecVolatile>> ELSE <<>>)
    \o (IF RLt(emergency_fund_months, RInt(1)) THEN <<RecEmergency>> ELSE <<>>)
    \o (IF diversification_score * 10 < 4 * FX THEN <<RecConcentrated>> ELSE <<>>)
    \o (IF RLe(avg_monthly_savings, RInt(0)) THEN <<RecSavings>> ELSE <<>>)

\* lines 385-396
Recommendations(dti, emergency_fund_months, volatility, diversification_score, avg_monthly_savings) ==
    (IF RGt(dti, Rat(5, 10)) THEN <<RecDTI>> ELSE <<>>)
    \o (IF RLt(emergency_fund_months, RInt(1)) THEN <<RecEmergency>> ELSE <<>>)
    \o (IF VolGt(volatility, Rat(4, 10)) THEN <<RecVolatile>> ELSE <<>>)
    \o (IF diversification_score * 10 < 4 * FX THEN <<RecConcentrated>> ELSE <<>>)
    \o (IF RLe(avg_monthly_savings, RInt(0)) THEN <<RecSavings>> ELSE <<>>)

\* lines 256-296: the handler's local metrics
Metrics(agg) ==
    LET months_count == MonthsCount(agg.monthly_series)
        avg_monthly_income  == Rat(agg.total_income, months_count)
        avg_monthly_expense == Rat(agg.total_expense, months_count)
    IN  [months_count |-> months_count,
         avg_monthly_income |-> avg_monthly_income,
         avg_monthly_expense |-> avg_monthly_expense,
         avg_monthly_savings |-> AvgMonthlySavings(avg_monthly_income, avg_monthly_expense),
         volatility |-> compute_spending_volatility(agg.monthly_series)]

NoMetrics ==
    [months_count |-> 1, avg_monthly_income |-> RInt(0), avg_monthly_expense |-> RInt(0),
     avg_monthly_savings |-> RInt(0), volatility |-> ZeroVol]

\* lines 249-401, for the transactions the query returned
Analytics(agg, weekly) ==
    LET monthly_series == agg.monthly_series
        m == Metrics(agg)
        avg_monthly_income  == m.avg_monthly_income
        avg_monthly_expense == m.avg_monthly_expense
        avg_monthly_savings == m.avg_monthly_savings
        dti == DTI(avg_monthly_income, avg_monthly_expense)
        payment_consistency == PaymentConsistency(monthly_series)
        emergency_fund_months ==
            EmergencyFundMonths(avg_monthly_savings, avg_monthly_expense)
        volatility == m.volatility
        diversification == compute_diversification_score(agg.categories)
        diversification_score == diversification.fx
        overall_risk_score ==
            OverallRiskScore(dti, payment_consistency, volatility, diversification_score)
        forecast == simple_linear_forecast(monthly_series, 4)
        recs == Recommendations(dti, emergency_fund_months, volatility,
                                diversification_score, avg_monthly_savings)
    IN  IF diversification.err \/ weekly.err THEN [status |-> "error"]
        ELSE
        [status |-> "ok",
         risk_assessment |->
            [overall_risk_score |-> overall_risk_score,
             risk_level |-> RiskLevel(overall_risk_score),
             credit_risk |->
                [dti_ratio |-> dti,
                 estimated_credit_score |->
                    estimate_credit_score_from_behaviour(payment_consistency, dti),
                 payment_consistency |-> payment_consistency,
                 risk_level |-> IF RGt(dti, Rat(6, 10)) THEN "high"
                                ELSE IF RGt(dti, Rat(4, 10)) THEN "medium" ELSE "low"],
             liquidity_risk |->
                [emergency_fund_months |-> emergency_fund_months,
                 income_stability |-> payment_consistency,
                 liquidity_ratio |-> IF avg_monthly_expense.num > 0
                                     THEN RDiv(avg_monthly_income, avg_monthly_expense)
                                     ELSE RInt(0),
                 risk_level |-> IF RLt(emergency_fund_months, RInt(1)) THEN "high"
                                ELSE IF RLt(emergency_fund_months, RInt(3)) THEN "medium"
                                ELSE "low"],
             market_risk |->
                [spending_volatility |-> VolFx(volatility),
                 diversification_score |-> diversification_score,
                 market_exposure |-> IF diversification_score * 10 < 3 * FX THEN "high"
                                     ELSE IF diversification_score * 10 < 6 * FX THEN "medium"
                                     ELSE "low",
                 risk_level |-> IF VolGt(volatility, Rat(5, 10)) THEN "high"
                                ELSE IF VolGt(volatility, Rat(25, 100)) THEN "medium"
                                ELSE "low"],
             operational_risk |->
                [financial_discipline |->
                    FinancialDiscipline(avg_monthly_savings, avg_monthly_income),
                 spending_consistency |-> SpendingConsistency(volatility),
                 goal_achievement_rate |-> Rat(1, 2),
                 risk_level |-> IF avg_monthly_savings.num < 0 THEN "high"
                                ELSE IF RGt(avg_monthly_savings,
                                            RMul(avg_monthly_expense, Rat(2, 10)))
                                     THEN "low" ELSE "medium"],
             recommendations |-> recs],
         predictions |->
            [forecast |-> forecast,
             average_predicted |-> RDiv(RSum(forecast), RInt(Len(forecast))),
             recommendations |-> recs],
         weekly_insights |->
            [total_spending |-> weekly.total_spending,
             insights |-> weekly.insights,
             recommendations |-> weekly.recommendations],
         aggregates |->
            [total_income |-> agg.total_income,
             total_expense |-> agg.total_expense,
             monthly_series |-> monthly_series]]

(***************************************************************************)
(* The state machine.  POST /api/transactions inserts a document, DELETE   *)
(* /api/transactions/{id} removes one, GET /api/advanced_analytics runs    *)
(* the engine on what the collection holds and returns the report.         *)
(***************************************************************************)
NoReport == [status |-> "none"]

NoAggregates ==
    [monthly_series |-> <<>>, total_income |-> 0, total_expense |-> 0,
     total_outlier_expense |-> 0, categories |-> <<>>]

\* the day the clock shows at the start, and how many days it may advance
StartDate == DT(2024, 3, 18)
MaxTick == 1

Init ==
    /\ store = [i \in PoolIdx |-> 0]
    /\ transactions = <<>>
    /\ aggregates = NoAggregates
    /\ metrics = NoMetrics
    /\ report = NoReport
    /\ clock = 0
    /\ now = Ordinal(StartDate)

create_transaction(i) ==
    /\ StoreSize(store) < MaxTx
    /\ store' = [store EXCEPT ![i] = @ + 1]
    /\ transactions' = <<>>
    /\ aggregates' = NoAggregates
    /\ metrics' = NoMetrics
    /\ report' = NoReport
    /\ clock' = 0
    /\ UNCHANGED now

delete_transaction(i) ==
    /\ store[i] > 0
    /\ store' = [store EXCEPT ![i] = @ - 1]
    /\ transactions' = <<>>
    /\ aggregates' = NoAggregates
    /\ metrics' = NoMetrics
    /\ report' = NoReport
    /\ clock' = 0
    /\ UNCHANGED now

\* lines 239-245, a variant that lets the failure of the query out
Fetch_Raise(st, ok) ==
    IF ok THEN [raised |-> FALSE, transactions |-> FindTransactions(st)]
    ELSE [raised |-> TRUE, transactions |-> <<>>]

\* lines 239-245: the query in its try block; ok is whether the store
\* answered, and the except branch continues with transactions = []
Fetch(st, ok) ==
    IF ok THEN [raised |-> FALSE, transactions |-> FindTransactions(st)]
    ELSE [raised |-> FALSE, transactions |-> <<>>]

\* GET /api/advanced_analytics.  compute_basic_aggregates rewrites the date
\* strings of the list it is given (lines 40-48) and compute_weekly_insights
\* (line 326) reads the list after that; an exception becomes the 500
\* response of main.py lines 573-576.
build_advanced_analytics ==
    /\ report = NoReport
    /\ \E ok \in BOOLEAN :
          LET f == Fetch(store, ok)
          IN  /\ transactions' = Normalize(f.transactions)
              /\ aggregates' = IF f.raised THEN NoAggregates
                               ELSE compute_basic_aggregates(f.transactions)
              /\ metrics' = Metrics(aggregates')
              /\ report' = IF f.raised THEN [status |-> "error"]
                           ELSE Analytics(aggregates',
                                          compute_weekly_insights(transactions', now))
    /\ clock' = now
    /\ UNCHANGED <<store, now>>

\* time passes
Tick ==
    /\ now < Ordinal(StartDate) + MaxTick
    /\ now' = now + 1
    /\ UNCHANGED <<store, transactions, aggregates, metrics, report, clock>>

Next ==
    \/ \E i \in PoolIdx : create_transaction(i)
    \/ \E i \in PoolIdx : delete_transaction(i)
    \/ build_advanced_analytics
    \/ Tick

Spec == Init /\ [][Next]_vars

(***************************************************************************)
(* The same handlers on a collection that takes more documents of fewer    *)
(* kinds: the outlier detection needs five expenses before two of them can *)
(* lie above ten times the median.                                         *)
(***************************************************************************)
OutlierPool == {4, 5, 6, 7, 10, 11}
MaxOutlierTx == 6

create_transaction_outliers(i) ==
    /\ StoreSize(store) < MaxOutlierTx
    /\ store' = [store EXCEPT ![i] = @ + 1]
    /\ transactions' = <<>>
    /\ aggregates' = NoAggregates
    /\ metrics' = NoMetrics
    /\ report' = NoReport
    /\ clock' = 0
    /\ UNCHANGED now

NextOutliers ==
    \/ \E i \in OutlierPool : create_transaction_outliers(i)
    \/ \E i \in OutlierPool : delete_transaction(i)
    \/ build_advanced_analytics

SpecOutliers == Init /\ [][NextOutliers]_vars

(***************************************************************************)
(* Properties.                                                             *)
(***************************************************************************)
Held == report.status # "none"
Ok == report.status = "ok"
Risk == report.risk_assessment

\* C1: when the transaction set is empty, build_advanced_analytics returns the
\* default report: overall_risk_score = 0.3, risk_level = medium and exactly
\* one recommendation.
C1_EmptyDefaultReport ==
    (Ok /\ transactions = <<>>) =>
        /\ Risk.overall_risk_score * 10 = 3 * FX
        /\ Risk.risk_level = "medium"
        /\ Len(Risk.recommendations) = 1

\* The transactions as the aggregation read them, after the dates were parsed.
Seen == Normalize(transactions)
Idx == 1 .. Len(Seen)
Amt(i) == SafeFloat(Seen[i].amount)
TypeOf(i) == Lower(Seen[i].type)
ExpenseIdx == {i \in Idx : TypeOf(i) = "expense"}
DatedIdx == {i \in Idx : IsDatetime(Seen[i].date)}
Outliers == OutlierAmounts(ExpenseAmounts(Seen))

RECURSIVE SumAmt(_)
SumAmt(I) ==
    IF I = {} THEN 0
    ELSE LET i == CHOOSE j \in I : TRUE IN Amt(i) + SumAmt(I \ {i})

\* the value at index floor(n/2) of the ascending expense amounts, by rank
RankMedian ==
    CHOOSE m \in {Amt(i) : i \in ExpenseIdx} :
        /\ Cardinality({i \in ExpenseIdx : Amt(i) < m}) <= Cardinality(ExpenseIdx) \div 2
        /\ Cardinality({i \in ExpenseIdx : Amt(i) <= m}) > Cardinality(ExpenseIdx) \div 2

Threshold == IF 10 * RankMedian >= 50000 THEN 10 * RankMedian ELSE 50000

AboveThreshold == {i \in ExpenseIdx : Amt(i) > Threshold}

\* C2: with at least 3 expense transactions and T = max(10 * median_expense,
\* 50000), an expense is routed to outlier_expense iff its amount is > T:
\* every outlier is > T, every regular expense is <= T, and the totals the
\* aggregation returns are the sums of the two classes.
C2_OutlierThreshold ==
    (Held /\ Cardinality(ExpenseIdx) >= 3) =>
        /\ \A i \in ExpenseIdx : IsOutlier(Seen[i], Outliers) <=> Amt(i) > Threshold
        /\ aggregates.total_outlier_expense = SumAmt(AboveThreshold)
        /\ aggregates.total_expense =
              SumAmt({i \in Idx : TypeOf(i) # "income"} \ AboveThreshold)

\* an outlier beside a regular expense, and an expense exactly at the threshold
C2_Witness ==
    /\ Held /\ Cardinality(ExpenseIdx) >= 3
    /\ aggregates.total_outlier_expense > 0
    /\ \E i \in ExpenseIdx : Amt(i) <= Threshold /\ Amt(i) > 0

C2_WitnessBoundary ==
    /\ Held /\ Cardinality(ExpenseIdx) >= 3
    /\ \E i \in ExpenseIdx : Amt(i) = Threshold

KeyOf(i) == <<Seen[i].date.y, Seen[i].date.m>>
Keys == {KeyOf(i) : i \in DatedIdx}
Class(i) ==
    IF TypeOf(i) = "income" THEN "income"
    ELSE IF IsOutlier(Seen[i], Outliers) THEN "outlier_expense"
    ELSE "expense"
Series == aggregates.monthly_series
BucketsFor(k) == {j \in 1 .. Len(Series) : <<Series[j].year, Series[j].month>> = k}
InClass(I, c) == {i \in I : Class(i) = c}
InMonth(k, c) == {i \in DatedIdx : KeyOf(i) = k /\ Class(i) = c}
SeriesSum(c) == SeqSum([j \in 1 .. Len(Series) |-> Series[j][c]])

\* C3: every transaction with a valid date contributes to exactly one monthly
\* bucket, the one keyed by its (year, month); and for income, regular expense
\* and outlier expense the sum over the buckets plus the sum over the undated
\* transactions of the class equals the global total.
C3_BucketConservation ==
    Held =>
        /\ \A k \in Keys : Cardinality(BucketsFor(k)) = 1
        /\ \A j \in 1 .. Len(Series) :
              LET k == <<Series[j].year, Series[j].month>>
              IN  /\ k \in Keys
                  /\ Series[j].income = SumAmt(InMonth(k, "income"))
                  /\ Series[j].expense = SumAmt(InMonth(k, "expense"))
                  /\ Series[j].outlier_expense = SumAmt(InMonth(k, "outlier_expense"))
        /\ aggregates.total_income =
              SeriesSum("income") + SumAmt(InClass(Idx \ DatedIdx, "income"))
        /\ aggregates.total_expense =
              SeriesSum("expense") + SumAmt(InClass(Idx \ DatedIdx, "expense"))
        /\ aggregates.total_outlier_expense =
              SeriesSum("outlier_expense") + SumAmt(InClass(Idx \ DatedIdx, "outlier_expense"))

\* dated and undated transactions of every class, in more than one month
C3_Witness ==
    /\ Held
    /\ Cardinality(Keys) >= 2
    /\ InClass(Idx \ DatedIdx, "outlier_expense") # {}
    /\ InClass(DatedIdx, "expense") # {}
    /\ aggregates.total_outlier_expense > 0

CatTotal(c) ==
    IF c \in DOMAIN aggregates.categories THEN aggregates.categories[c] ELSE 0
RegularExpenses(I, c) ==
    {i \in I : TypeOf(i) = "expense" /\ Class(i) = "expense" /\ CategoryOf(Seen[i]) = c}
CatNames == {CategoryOf(Seen[i]) : i \in Idx}

\* C4 as stated: a transaction whose date is missing or unparseable adds its
\* amount to the global totals, nothing to the monthly series and nothing to
\* the category totals.
C4_UndatedNotInCategories ==
    Held =>
        /\ aggregates.total_income + aggregates.total_expense
             + aggregates.total_outlier_expense = SumAmt(Idx)
        /\ SeriesSum("income") + SeriesSum("expense") + SeriesSum("outlier_expense")
             = SumAmt(DatedIdx)
        /\ \A c \in CatNames : CatTotal(c) = SumAmt(RegularExpenses(DatedIdx, c))

\* C4 as amended: a transaction whose date is missing or unparseable adds its
\* amount to the global totals and nothing to the monthly series; when it is a
\* regular (non-outlier) expense it adds its amount to its category total like
\* a dated one.
C4_UndatedInTotalsAndCategories ==
    Held =>
        /\ aggregates.total_income + aggregates.total_expense
             + aggregates.total_outlier_expense = SumAmt(Idx)
        /\ SeriesSum("income") + SeriesSum("expense") + SeriesSum("outlier_expense")
             = SumAmt(DatedIdx)
        /\ \A c \in CatNames : CatTotal(c) = SumAmt(RegularExpenses(Idx, c))

\* an undated regular expense with a positive amount beside a dated transaction
C4_Witness ==
    /\ Held
    /\ DatedIdx # {}
    /\ \E i \in Idx \ DatedIdx :
          /\ TypeOf(i) = "expense" /\ Class(i) = "expense" /\ Amt(i) > 0
          /\ CatTotal(CategoryOf(Seen[i])) >= Amt(i)

Recs == Risk.recommendations
RuleText == <<RecDTI, RecEmergency, RecVolatile, RecConcentrated, RecSavings>>
RuleHolds ==
    << RGt(Risk.credit_risk.dti_ratio, Rat(1, 2)),
       RLt(Risk.liquidity_risk.emergency_fund_months, RInt(1)),
       VolGt(metrics.volatility, Rat(2, 5)),
       Risk.market_risk.diversification_score * 10 < 4 * FX,
       RLe(metrics.avg_monthly_savings, RInt(0)) >>

\* C5: the recommendations of the report are never empty; when none of the
\* five threshold rules fires the list is one positive-affirmation string.
C5_RecommendationsNeverEmpty ==
    Ok =>
        /\ Len(Recs) >= 1
        /\ (\A r \in 1 .. 5 : ~RuleHolds[r]) =>
              (Len(Recs) = 1 /\ \A r \in 1 .. 5 : Recs[1] # RuleText[r])

\* C6: the recommendations are emitted in the fixed order of the five rules;
\* each string appears iff its own condition holds and no string appears twice.
C6_RecommendationOrder ==
    Ok =>
        /\ \A r \in 1 .. 5 : (\E i \in 1 .. Len(Recs) : Recs[i] = RuleText[r]) <=> RuleHolds[r]
        /\ \A i, j \in 1 .. Len(Recs) :
              i < j => \E r, q \in 1 .. 5 :
                          r < q /\ Recs[i] = RuleText[r] /\ Recs[j] = RuleText[q]

\* all five rules fire
C6_Witness == Ok /\ Len(Recs) = 5

\* some rules fire and others do not
C6_WitnessPartial ==
    Ok /\ RuleHolds[2] /\ RuleHolds[3] /\ Len(Recs) < 5

\* the weighted sum of lines 306-311 before the clamp, times 100 * FX
RawScore ==
    LET d  == Risk.credit_risk.dti_ratio
        pc == Risk.credit_risk.payment_consistency
        nd == IF d.num > d.den THEN FX ELSE ScaledDiv(d.num, d.den, 3)
    IN  40 * nd + 25 * (FX - ScaledDiv(pc.num, pc.den, 3))
        + 20 * Risk.market_risk.spending_volatility
        + 15 * (FX - Risk.market_risk.diversification_score)

\* C7: for every transaction set overall_risk_score lies in [0, 1].
C7_OverallScoreBounded ==
    Ok => (0 <= Risk.overall_risk_score /\ Risk.overall_risk_score <= FX)

\* the weighted sum is above 1 and the reported score is 1
C7_Witness == Ok /\ RawScore > 101 * FX /\ Risk.overall_risk_score = FX

NonNegativeAmounts == \A i \in Idx : Amt(i) >= 0

\* C8, for transaction sets with non-negative amounts (the claim says it of
\* every transaction set): payment_consistency, diversification_score,
\* financial_discipline and spending_consistency each lie in [0, 1].
C8_SubScoresBounded ==
    (Ok /\ NonNegativeAmounts) =>
        /\ RLe(RInt(0), Risk.credit_risk.payment_consistency)
        /\ RLe(Risk.credit_risk.payment_consistency, RInt(1))
        /\ 0 <= Risk.market_risk.diversification_score
        /\ Risk.market_risk.diversification_score <= FX
        /\ RLe(RInt(0), Risk.operational_risk.financial_discipline)
        /\ RLe(Risk.operational_risk.financial_discipline, RInt(1))
        /\ 0 <= Risk.operational_risk.spending_consistency
        /\ Risk.operational_risk.spending_consistency <= FX

\* 650 + (pc - 0.7) * 200 - (dti - 0.3) * 200 = 570 + 200 * (pc - dti), as
\* one fraction CreditNum / CreditDen of the reported pc and dti
CreditNum ==
    LET pc == Risk.credit_risk.payment_consistency
        d  == Risk.credit_risk.dti_ratio
    IN  570 * pc.den * d.den + 200 * (pc.num * d.den - d.num * pc.den)
CreditDen ==
    Risk.credit_risk.payment_consistency.den * Risk.credit_risk.dti_ratio.den

\* C9: estimated_credit_score is clamp(650 + (payment_consistency - 0.7) * 200
\* - (dti - 0.3) * 200, 300, 850) truncated to an integer, hence an integer in
\* [300, 850], for payment_consistency in [0, 1] and dti in [0, 10].
C9_CreditScore ==
    (/\ Ok
     /\ RLe(RInt(0), Risk.credit_risk.payment_consistency)
     /\ RLe(Risk.credit_risk.payment_consistency, RInt(1))
     /\ RLe(RInt(0), Risk.credit_risk.dti_ratio)
     /\ RLe(Risk.credit_risk.dti_ratio, RInt(10))) =>
        /\ Risk.credit_risk.estimated_credit_score \in 300 .. 850
        /\ Risk.credit_risk.estimated_credit_score =
              IF CreditNum <= 300 * CreditDen THEN 300
              ELSE IF CreditNum >= 850 * CreditDen THEN 850
              ELSE CreditNum \div CreditDen

\* the formula is below 300 and the score is 300
C9_Witness ==
    Ok /\ CreditNum < 300 * CreditDen /\ Risk.credit_risk.estimated_credit_score = 300

\* the formula is not an integer and the score is its integer part
C9_WitnessTruncated ==
    /\ Ok /\ CreditNum % CreditDen # 0
    /\ CreditNum > 300 * CreditDen
    /\ Risk.credit_risk.estimated_credit_score = CreditNum \div CreditDen

Forecast == report.predictions.forecast

\* C10: simple_linear_forecast returns exactly `periods` values (4 in the
\* report), every value is >= 0 whatever the monthly series, and with no
\* monthly bucket it returns `periods` copies of 0.0.
C10_ForecastNonNegative ==
    Ok =>
        /\ Len(Forecast) = 4
        /\ \A p \in 1 .. Len(Forecast) : Forecast[p].num >= 0
        /\ Len(Series) = 0 => \A p \in 1 .. Len(Forecast) : Forecast[p] = RInt(0)
        /\ \A k \in 0 .. 6 :
              LET f == simple_linear_forecast(Series, k)
              IN  /\ Len(f) = k
                  /\ \A p \in 1 .. k : f[p].num >= 0
                  /\ Len(Series) = 0 => \A p \in 1 .. k : f[p] = RInt(0)

\* a decreasing series with a negative monthly expense, its projection cut
\* off at zero
C10_Witness ==
    /\ Ok /\ Len(Series) >= 2
    /\ Series[Len(Series)].expense < 0
    /\ Series[Len(Series)].expense < Series[1].expense
    /\ \A p \in 1 .. 4 : Forecast[p] = RInt(0)

\* no monthly bucket although transactions exist
C10_WitnessNoBuckets == Ok /\ Len(Series) = 0 /\ transactions # <<>>

Ys == [i \in 1 .. Len(Series) |-> Series[i].expense]
ExactlyLinear ==
    Len(Ys) >= 2 /\ \A i \in 1 .. Len(Ys) : Ys[i] = Ys[1] + (i - 1) * (Ys[2] - Ys[1])
\* a + b * (n + k) for the line through Ys, cut off at 0
LineAt(k) ==
    LET v == Ys[1] + (Ys[2] - Ys[1]) * (Len(Ys) + k)
    IN  IF v < 0 THEN RInt(0) ELSE RInt(v)
Months(ys) == [i \in 1 .. Len(ys) |-> [expense |-> ys[i]]]

C11_WitnessSingle == Ok /\ Len(Ys) = 1 /\ Ys[1] < 0

\* the query answered: the request read every document of the collection
Answered == Len(transactions) = StoreSize(store)

\* what a request made in this state returns
SecondCall ==
    Analytics(compute_basic_aggregates(FindTransactions(store)),
              compute_weekly_insights(Normalize(FindTransactions(store)), now))

\* C12: two invocations of the engine on the same unchanged transaction set
\* yield identical reports, weekly_insights included, whatever happens between
\* the two calls.
C12_Idempotent == (Ok /\ Answered) => SecondCall = report

\* C13: after compute_basic_aggregates / build_advanced_analytics returns,
\* every transaction record passed in is unchanged, its date field included.
C13_InputUnchanged == (Held /\ Answered) => transactions = FindTransactions(store)

\* C14: for any input, negative amounts included, every monthly income,
\* expense and outlier total, every global total and every category total
\* is >= 0.
C14_TotalsNonNegative ==
    Held =>
        /\ \A j \in 1 .. Len(Series) :
              Series[j].income >= 0 /\ Series[j].expense >= 0 /\ Series[j].outlier_expense >= 0
        /\ aggregates.total_income >= 0
        /\ aggregates.total_expense >= 0
        /\ aggregates.total_outlier_expense >= 0
        /\ \A c \in DOMAIN aggregates.categories : aggregates.categories[c] >= 0

\* C15: dti is avg_monthly_expense / (avg_monthly_income + eps) clamped to
\* [0, 10]: 10 when avg_monthly_income is 0 and avg_monthly_expense > 0, and
\* 0 when both are 0.
C15_DTI ==
    Ok =>
        LET inc == metrics.avg_monthly_income
            exp == metrics.avg_monthly_expense
            dti == Risk.credit_risk.dti_ratio
        IN  /\ inc.num > 0 =>
                  dti = (IF exp.num < 0 THEN RInt(0)
                         ELSE IF RGt(RDiv(exp, inc), RInt(10)) THEN RInt(10)
                         ELSE RDiv(exp, inc))
            /\ (inc.num = 0 /\ exp.num > 0) => dti = RInt(10)
            /\ (inc.num = 0 /\ exp.num = 0) => dti = RInt(0)

Weekly == report.weekly_insights
\* the non-income entries dated in [lo, hi)
InWindow(lo, hi) ==
    {i \in DatedIdx : /\ TypeOf(i) # "income"
                      /\ lo <= Ordinal(Seen[i].date) /\ Ordinal(Seen[i].date) < hi}
WindowCats(lo, hi) == {CategoryOf(Seen[i]) : i \in InWindow(lo, hi)}
WindowCatSpend(lo, hi, c) == SumAmt({i \in InWindow(lo, hi) : CategoryOf(Seen[i]) = c})
TopInsights == {i \in 1 .. Len(Weekly.insights) : Weekly.insights[i].text = InsightTop}

\* C16: the weekly window is [now - 7 days, now): a transaction contributes
\* to the weekly total_spending and to the top category iff
\* now - 7d <= date < now, so one dated at or after now is excluded.
C16_WeeklyWindow ==
    Ok =>
        /\ Weekly.total_spending = SumAmt(InWindow(clock - 7, clock))
        /\ \A i \in TopInsights :
              /\ Weekly.insights[i].category \in WindowCats(clock - 7, clock)
              /\ Weekly.insights[i].amount =
                    WindowCatSpend(clock - 7, clock, Weekly.insights[i].category)
              /\ \A c \in WindowCats(clock - 7, clock) :
                    WindowCatSpend(clock - 7, clock, c) <= Weekly.insights[i].amount

\* C17: the 'spending increased significantly' insight is emitted iff
\* previous_avg > 0 and current_avg > 1.3 * previous_avg, the averages being
\* the non-income spend of [now - 7d, now) and of [now - 14d, now - 7d) over 7.
C17_SpikeRule ==
    Ok =>
        LET current  == SumAmt(InWindow(clock - 7, clock))
            previous == SumAmt(InWindow(clock - 14, clock - 7))
        IN  (\E i \in 1 .. Len(Weekly.insights) : Weekly.insights[i].text = InsightSpike)
            <=> (previous > 0 /\ 10 * current > 13 * previous)

\* C18, for transaction sets with non-negative amounts: whatever the form of
\* the dates (datetime, ISO string with or without offset, unparsable string,
\* absent) and of the amounts (number, non-numeric), the request returns a
\* full report, and a date that parses puts the record in its month's bucket.
C18_NoErrorOnMalformedInput ==
    (Held /\ NonNegativeAmounts) =>
        /\ Ok
        /\ \A i \in Idx : transactions[i].date.k \in {"datetime", "datetime_tz", "none"}
        /\ \A i \in DatedIdx : BucketsFor(KeyOf(i)) # {}

\* the report for no transactions
EmptyReport ==
    Analytics(compute_basic_aggregates(<<>>), compute_weekly_insights(<<>>, clock))

\* C19: if the store query fails, build_advanced_analytics returns (does not
\* raise) the same report it returns for an empty transaction set.
C19_QueryFailureIsEmpty ==
    (Held /\ ~Answered) => (Ok /\ report = EmptyReport)

\* the query failed on a collection that holds documents
C19_Witness == Ok /\ ~Answered /\ StoreSize(store) >= 2

\* C20: spending_volatility is >= 0 for every monthly series, 0 when there
\* are no buckets or the mean monthly expense is 0, and 0 whenever all monthly
\* regular-expense totals are equal.
C20_VolatilityBounds ==
    Ok =>
        /\ Risk.market_risk.spending_volatility >= 0
        /\ metrics.volatility.sgn >= 0
        /\ (Len(Ys) = 0 \/ SeqSum(Ys) = 0) => Risk.market_risk.spending_volatility = 0
        /\ (\A i, j \in 1 .. Len(Ys) : Ys[i] = Ys[j]) => Risk.market_risk.spending_volatility = 0

\* the score of the category totals the aggregation returned
DivOf == compute_diversification_score(aggregates.categories)
Positive == {c \in DOMAIN aggregates.categories : aggregates.categories[c] > 0}

\* C21: diversification_score lies in [0, 1] for every category-totals
\* mapping; it is 0 when no category has positive spend, 1 when exactly one
\* has, and 1 when two or more categories with positive spend have equal
\* totals.
C21_DiversificationBounds ==
    Held =>
        /\ ~DivOf.err
        /\ 0 <= DivOf.fx /\ DivOf.fx <= FX
        /\ Positive = {} => DivOf.fx = 0
        /\ Cardinality(Positive) = 1 => DivOf.fx = FX
        /\ (/\ Cardinality(Positive) >= 2
            /\ \A c, d \in Positive : aggregates.categories[c] = aggregates.categories[d])
              => DivOf.fx = FX

\* low below the lower threshold, medium below the upper, high otherwise
Bucket(x, pair) ==
    IF RLt(x, pair[1]) THEN "low" ELSE IF RLt(x, pair[2]) THEN "medium" ELSE "high"
BucketVol(vol, pair) ==
    IF VolLt(vol, pair[1]) THEN "low" ELSE IF VolLt(vol, pair[2]) THEN "medium" ELSE "high"
ThresholdPairs == {<<Rat(25, 100), Rat(60, 100)>>, <<Rat(33, 100), Rat(66, 100)>>}

\* C22: one threshold pair buckets scores into risk levels and that same pair
\* gives the level of the overall score and of the sub-reports; stated here
\* for the overall score, the credit sub-report (dti) and the market
\* sub-report (volatility) only, with either of the two pairs.
C22_SingleThresholdPair ==
    Ok =>
        \E pair \in ThresholdPairs :
            /\ Risk.risk_level = Bucket(Rat(Risk.overall_risk_score, FX), pair)
            /\ Risk.credit_risk.risk_level = Bucket(Risk.credit_risk.dti_ratio, pair)
            /\ Risk.market_risk.risk_level = BucketVol(metrics.volatility, pair)

\* income in every month, the same regular expense in every month, every
\* transaction dated and none an outlier
SteadyMonths ==
    /\ Ok /\ Answered /\ Len(Series) >= 1
    /\ DatedIdx = Idx
    /\ aggregates.total_outlier_expense = 0
    /\ \A j \in 1 .. Len(Series) : Series[j].income > 0 /\ Series[j].expense > 0
    /\ \A j, k \in 1 .. Len(Series) : Series[j].expense = Series[k].expense

\* scenario 1 of the specification, and what the engine makes of it
Scenario1 ==
    << Tx("expense", "Food",   Num(100),  DT(2024, 1, 5)),
       Tx("expense", "Food",   Num(100),  DT(2024, 2, 5)),
       Tx("income",  "Salary", Num(1000), DT(2024, 1, 1)),
       Tx("income",  "Salary", Num(1000), DT(2024, 2, 1)) >>
Scenario1Aggregates == compute_basic_aggregates(Scenario1)
Scenario1Metrics == Metrics(Scenario1Aggregates)
Scenario1Report ==
    Analytics(Scenario1Aggregates, compute_weekly_insights(Scenario1, Ordinal(StartDate)))

\* C23: with income in every month and equal regular expenses each month the
\* report has one bucket per month, avg_monthly_income = total_income /
\* months, avg_monthly_expense = total_regular_expense / months,
\* avg_monthly_savings = max(0, income - expense) and volatility = 0; when
\* moreover avg_monthly_expense = 0.1 * avg_monthly_income, dti = 0.1 and
\* risk_level = low.  Scenario 1 (two months, income 1000 and one Food expense
\* of 100 per month) gives 2 buckets, 1000, 100, 900, dti 0.1, volatility 0, low.
C23_SteadyScenario ==
    /\ SteadyMonths =>
          /\ Len(Series) = Cardinality(Keys)
          /\ metrics.avg_monthly_income = Rat(SumAmt({i \in Idx : TypeOf(i) = "income"}), Cardinality(Keys))
          /\ metrics.avg_monthly_expense = Rat(SumAmt({i \in Idx : TypeOf(i) # "income"}), Cardinality(Keys))
          /\ metrics.avg_monthly_savings =
                (IF RLt(metrics.avg_monthly_income, metrics.avg_monthly_expense) THEN RInt(0)
                 ELSE RSub(metrics.avg_monthly_income, metrics.avg_monthly_expense))
          /\ Risk.market_risk.spending_volatility = 0
          /\ (10 * aggregates.total_expense = aggregates.total_income) =>
                (Risk.credit_risk.dti_ratio = Rat(1, 10) /\ Risk.risk_level = "low")
    /\ Len(Scenario1Aggregates.monthly_series) = 2
    /\ Scenario1Metrics.avg_monthly_income = RInt(1000)
    /\ Scenario1Metrics.avg_monthly_expense = RInt(100)
    /\ Scenario1Metrics.avg_monthly_savings = RInt(900)
    /\ Scenario1Report.risk_assessment.credit_risk.dti_ratio = Rat(1, 10)
    /\ Scenario1Report.risk_assessment.market_risk.spending_volatility = 0
    /\ Scenario1Report.risk_assessment.risk_level = "low"

\* two steady months
C23_Witness == SteadyMonths /\ Len(Series) = 2

\* a steady set whose expense is a tenth of its income
C23_WitnessTenth == SteadyMonths /\ 10 * aggregates.total_expense = aggregates.total_income

\* scenario 2 of the specification: one expense of 100000 among five of 1000
Scenario2 ==
    << Tx("expense", "Travel", Num(100000), DT(2024, 1, 10)),
       Tx("expense", "Food",   Num(1000),   DT(2024, 1, 2)),
       Tx("expense", "Food",   Num(1000),   DT(2024, 1, 3)),
       Tx("expense", "Food",   Num(1000),   DT(2024, 1, 4)),
       Tx("expense", "Food",   Num(1000),   DT(2024, 1, 5)),
       Tx("expense", "Food",   Num(1000),   DT(2024, 1, 6)) >>
Scenario2Aggregates == compute_basic_aggregates(Scenario2)

\* C24: every expense whose amount is strictly above the threshold, also when
\* several transactions share that amount, is added to outlier_expense of its
\* month and globally and to no regular expense total and no category total;
\* an income with the same amount is unaffected.  In scenario 2 the expense
\* of 100000 goes to the outlier total.
C24_OutliersByValue ==
    /\ (Held /\ Cardinality(ExpenseIdx) >= 3) =>
          /\ \A k \in Keys : \A j \in BucketsFor(k) :
                /\ Series[j].outlier_expense =
                      SumAmt({i \in DatedIdx \cap AboveThreshold : KeyOf(i) = k})
                /\ Series[j].expense =
                      SumAmt({i \in DatedIdx \ AboveThreshold :
                                  KeyOf(i) = k /\ TypeOf(i) # "income"})
                /\ Series[j].income =
                      SumAmt({i \in DatedIdx : KeyOf(i) = k /\ TypeOf(i) = "income"})
          /\ aggregates.total_outlier_expense = SumAmt(AboveThreshold)
          /\ aggregates.total_expense =
                SumAmt({i \in Idx : TypeOf(i) # "income"} \ AboveThreshold)
          /\ aggregates.total_income = SumAmt({i \in Idx : TypeOf(i) = "income"})
          /\ \A c \in CatNames :
                CatTotal(c) = SumAmt({i \in ExpenseIdx \ AboveThreshold : CategoryOf(Seen[i]) = c})
    /\ Scenario2Aggregates.total_outlier_expense = 100000
    /\ Scenario2Aggregates.total_expense = 5000
    /\ Scenario2Aggregates.categories = [c \in {"Food"} |-> 5000]
    /\ Scenario2Aggregates.monthly_series =
          <<[year |-> 2024, month |-> 1, income |-> 0, expense |-> 5000,
             outlier_expense |-> 100000]>>

\* two outliers of one amount in different months, beside an income of that amount
C24_Witness ==
    /\ Held /\ Cardinality(ExpenseIdx) >= 3
    /\ \E i, j \in AboveThreshold :
          /\ i # j /\ Amt(i) = Amt(j) /\ KeyOf(i) # KeyOf(j)
          /\ \E k \in Idx : TypeOf(k) = "income" /\ Amt(k) = Amt(i)

\* the lower of the two middle expense amounts, by rank
LowerMiddle ==
    CHOOSE m \in {Amt(i) : i \in ExpenseIdx} :
        /\ 2 * Cardinality({i \in ExpenseIdx : Amt(i) < m}) < Cardinality(ExpenseIdx)
        /\ 2 * Cardinality({i \in ExpenseIdx : Amt(i) <= m}) >= Cardinality(ExpenseIdx)
LowerThreshold == IF 10 * LowerMiddle >= 50000 THEN 10 * LowerMiddle ELSE 50000
ExpenseCats == {CategoryOf(Seen[i]) : i \in ExpenseIdx}

\* C25: with fewer than 3 expense transactions nothing is an outlier and every
\* expense, however large, is a regular expense.  With 3 or more, the median
\* is the amount at index floor(n/2) of the ascending expense amounts (the
\* upper of the two middle amounts when n is even), taken over the expenses
\* of all categories together.
C25_MedianRule ==
    /\ (Held /\ Cardinality(ExpenseIdx) < 3) =>
          /\ aggregates.total_outlier_expense = 0
          /\ \A j \in 1 .. Len(Series) : Series[j].outlier_expense = 0
          /\ aggregates.total_expense = SumAmt({i \in Idx : TypeOf(i) # "income"})
          /\ \A c \in CatNames :
                CatTotal(c) = SumAmt({i \in ExpenseIdx : CategoryOf(Seen[i]) = c})
    /\ (Held /\ Cardinality(ExpenseIdx) >= 3) =>
          /\ aggregates.total_outlier_expense = SumAmt(AboveThreshold)
          /\ aggregates.total_expense =
                SumAmt({i \in Idx : TypeOf(i) # "income"} \ AboveThreshold)
          /\ \A c \in CatNames :
                CatTotal(c) = SumAmt({i \in ExpenseIdx \ AboveThreshold : CategoryOf(Seen[i]) = c})

\* an even number of expenses in two categories where the lower middle amount
\* would have made the largest one an outlier
C25_Witness ==
    /\ Held /\ Cardinality(ExpenseIdx) = 4
    /\ Cardinality(ExpenseCats) >= 2
    /\ LowerMiddle < RankMedian
    /\ \E i \in ExpenseIdx : Amt(i) > LowerThreshold /\ Amt(i) <= Threshold
    /\ aggregates.total_outlier_expense = 0

\* two expenses, one of them far above 50000, both regular
C25_WitnessFewExpenses ==
    /\ Held /\ Cardinality(ExpenseIdx) = 2
    /\ \E i \in ExpenseIdx : Amt(i) > 50000
    /\ aggregates.total_outlier_expense = 0
    /\ aggregates.total_expense >= 60000

\* transactions of three months in two years, latest first
Scenario3 ==
    << Tx("expense", "Food",   Num(100),  DT(2024, 1, 15)),
       Tx("income",  "Salary", Num(1000), DT(2023, 12, 1)),
       Tx("expense", "Food",   Num(100),  DT(2023, 12, 20)),
       Tx("expense", "Rent",   Num(300),  DT(2023, 2, 3)) >>
Scenario3Series == compute_basic_aggregates(Scenario3).monthly_series
SeriesKey(j) == <<Series[j].year, Series[j].month>>

\* C26: monthly_series is strictly ascending by (year, month) whatever the
\* order of the transactions; it has exactly one entry for each distinct
\* (year, month) of a dated transaction and no entry for any other month.
C26_SeriesAscending ==
    /\ Held =>
          /\ \A j \in 1 .. Len(Series) - 1 :
                \/ Series[j].year < Series[j + 1].year
                \/ /\ Series[j].year = Series[j + 1].year
                   /\ Series[j].month < Series[j + 1].month
          /\ {SeriesKey(j) : j \in 1 .. Len(Series)} = Keys
          /\ Len(Series) = Cardinality(Keys)
    /\ [j \in 1 .. Len(Scenario3Series) |->
           <<Scenario3Series[j].year, Scenario3Series[j].month>>]
          = << <<2023, 2>>, <<2023, 12>>, <<2024, 1>> >>

\* three months, read in an order that is not the order of their dates
C26_Witness ==
    /\ Held /\ Len(Series) = 3
    /\ \E i, j \in DatedIdx : i < j /\ KeyOf(j)[2] < KeyOf(i)[2]

\* January and March without February
C26_WitnessGap ==
    /\ Held /\ Len(Series) = 2
    /\ Keys = {<<2024, 1>>, <<2024, 3>>}
    /\ Idx # DatedIdx

\* 0.40 min(1, dti) + 0.25 (1 - payment_consistency) + 0.20 volatility
\* + 0.15 (1 - diversification_score) of the reported figures, in units of 1e-5
Combination ==
    LET d  == Risk.credit_risk.dti_ratio
        pc == Risk.credit_risk.payment_consistency
        nd == IF d.num > d.den THEN RInt(1) ELSE d
        e  == RAdd(RMul(Rat(40, 100), nd), RMul(Rat(25, 100), RSub(RInt(1), pc)))
    IN  ScaledDiv(e.num, e.den, 5)
        + 20 * Risk.market_risk.spending_volatility
        + 15 * (FX - Risk.market_risk.diversification_score)
Clamped == IF Combination < 0 THEN 0 ELSE IF Combination > 100 * FX THEN 100 * FX ELSE Combination

\* C27: overall_risk_score is 0.40 min(1, dti) + 0.25 (1 - payment_consistency)
\* + 0.20 volatility + 0.15 (1 - diversification_score), weights summing to 1,
\* clamped to [0, 1]; risk_level is low iff the score is < 0.33, medium iff it
\* is >= 0.33 and < 0.66, and high otherwise.
C27_OverallScore ==
    Ok =>
        /\ 40 + 25 + 20 + 15 = 100
        /\ Risk.overall_risk_score = Clamped \div 100
        /\ (Risk.risk_level = "low") <=> (Clamped < 33 * FX)
        /\ (Risk.risk_level = "medium") <=> (33 * FX <= Clamped /\ Clamped < 66 * FX)
        /\ (Risk.risk_level = "high") <=> (Clamped >= 66 * FX)

\* a score between 0.25 and 0.33, reported as low
C27_Witness ==
    Ok /\ Risk.risk_level = "low" /\ Clamped >= 25 * FX /\ Combination # 15 * FX

\* a score between 0.60 and 0.66, reported as medium
C27_WitnessMedium == Ok /\ Risk.risk_level = "medium" /\ Clamped >= 60 * FX

\* a weighted sum outside [0, 1], reported as high
C27_WitnessHigh == Ok /\ Risk.risk_level = "high" /\ Combination > 100 * FX

Operational == Risk.operational_risk

\* C28: in every report operational_risk.risk_level is low or medium and never
\* high, because avg_monthly_savings is clamped to >= 0 before the test for
\* negative savings.
C28_OperationalNeverHigh ==
    Ok =>
        /\ Operational.risk_level \in {"low", "medium"}
        /\ metrics.avg_monthly_savings.num >= 0
        /\ (Operational.risk_level = "low") <=>
              RGt(metrics.avg_monthly_savings,
                  RMul(metrics.avg_monthly_expense, Rat(2, 10)))

\* the regular expense exceeds the income, and the level is medium
C28_Witness ==
    /\ Ok
    /\ aggregates.total_expense > aggregates.total_income
    /\ aggregates.total_income > 0
    /\ metrics.avg_monthly_savings = RInt(0)
    /\ Operational.risk_level = "medium"

Emitted(text) == {i \in 1 .. Len(Recs) : Recs[i] = text}

\* C29: whenever the savings recommendation (rule 5) is emitted, the
\* emergency-fund recommendation (rule 2) is emitted too and precedes it; and
\* whenever avg_monthly_income is 0 the DTI recommendation (rule 1) is emitted.
C29_RecommendationLinks ==
    Ok =>
        /\ \A j \in Emitted(RecSavings) : \E i \in Emitted(RecEmergency) : i < j
        /\ (metrics.avg_monthly_income = RInt(0)) => Emitted(RecDTI) # {}

\* income in every month, spent entirely: rules 2 and 5 without rule 3
C29_Witness ==
    /\ Ok
    /\ Emitted(RecSavings) # {}
    /\ aggregates.total_income > 0
    /\ Emitted(RecVolatile) = {}

\* expenses without any income
C29_WitnessNoIncome ==
    /\ Ok
    /\ metrics.avg_monthly_income = RInt(0)
    /\ aggregates.total_expense > 0
    /\ Emitted(RecDTI) = {1}

\* the transactions whose kind is neither income nor expense
OtherIdx == {i \in Idx : TypeOf(i) \notin {"income", "expense"}}
\* the expenses above the threshold, when there are enough expenses for one
OutlierIdx == IF Cardinality(ExpenseIdx) >= 3 THEN AboveThreshold ELSE {}
\* the non-income entries dated on or after the start of the weekly window
SinceWeekStart == {i \in DatedIdx : TypeOf(i) # "income" /\ Ordinal(Seen[i].date) >= clock - 7}

\* C30: a transaction whose kind is neither income nor expense (missing or
\* any other string) is added to the regular expense of its month and to the
\* global regular expense, is never considered for outlier detection (neither
\* in the threshold nor as an outlier), is never added to a category total,
\* and is counted as spend in the weekly window.
C30_OtherKinds ==
    /\ Held =>
          /\ \A k \in Keys : \A j \in BucketsFor(k) :
                /\ Series[j].expense =
                      SumAmt({i \in DatedIdx \cap ((ExpenseIdx \ OutlierIdx) \cup OtherIdx) :
                                  KeyOf(i) = k})
                /\ Series[j].outlier_expense =
                      SumAmt({i \in DatedIdx \cap OutlierIdx : KeyOf(i) = k})
          /\ aggregates.total_expense = SumAmt((ExpenseIdx \ OutlierIdx) \cup OtherIdx)
          /\ aggregates.total_outlier_expense = SumAmt(OutlierIdx)
          /\ \A c \in CatNames :
                CatTotal(c) = SumAmt({i \in ExpenseIdx \ OutlierIdx : CategoryOf(Seen[i]) = c})
    /\ Ok => Weekly.total_spending = SumAmt(SinceWeekStart)

\* a transaction without a kind whose amount is that of an outlier expense,
\* dated in the week before the request
C30_Witness ==
    /\ Ok
    /\ \E i \in OtherIdx :
          /\ TypeOf(i) = ""
          /\ Amt(i) \in {Amt(j) : j \in OutlierIdx}
          /\ CategoryOf(Seen[i]) \notin DOMAIN aggregates.categories
          /\ i \in DatedIdx /\ i \in SinceWeekStart /\ Ordinal(Seen[i].date) < clock
    /\ aggregates.total_expense > 60000

\* a transfer in a month with no other expense
C30_WitnessTransfer ==
    /\ Held
    /\ \E i \in OtherIdx \cap DatedIdx :
          /\ TypeOf(i) = "transfer"
          /\ \A j \in DatedIdx : (KeyOf(j) = KeyOf(i) /\ j # i) => TypeOf(j) = "income"
          /\ \E j \in BucketsFor(KeyOf(i)) : Series[j].expense = Amt(i)

=============================================================================
